---- MODULE Spec2Model ----
(***************************************************************************)
(* Model of the embedding Lambda: the HTTP handler (http_handler.rs), the  *)
(* embedding pipeline (embedder.rs), the error taxonomy (error.rs) and the *)
(* shared Arc<Mutex<Embedder>> created in main.rs.                         *)
(*                                                                         *)
(* Three specifications share the module:                                  *)
(*   Spec     - concurrent function_handler invocations on one mutex;      *)
(*   ErrSpec  - error_from_embed_error applied to every EmbedError value;  *)
(*   PoolSpec - mean_pooling, truncation and normalize applied to hidden   *)
(*              states, in exact arithmetic.                               *)
(***************************************************************************)
EXTENDS Integers, Sequences, FiniteSets

VARIABLES
    debug_assertions,  \* cfg!(debug_assertions): TRUE in a development build
    pc,                \* position of each function_handler invocation
    request,           \* the parsed EmbedRequest of each invocation
    holder,            \* owner of the MutexGuard, or NoHolder
    poisoned,          \* poison flag of the std::sync::Mutex
    seq_len,           \* input_ids.len() of the invocation inside embed
    response,          \* the Response<Body> each invocation returned
    log,               \* tracing events each invocation emitted
    calls,             \* per invocation: lock / tokenizer / session.run counts
    err,               \* ErrSpec: the EmbedError under conversion
    err_response,      \* ErrSpec: the response built from err
    hidden_states,     \* PoolSpec: session output, [seq_len][hidden_dim]
    attention_mask,    \* PoolSpec: mask returned by the tokenizer
    pooled,            \* PoolSpec: result of mean_pooling
    output             \* PoolSpec: embed's result for each size computed

vars == <<debug_assertions, pc, request, holder, poisoned, seq_len, response,
          log, calls, err, err_response, hidden_states, attention_mask, pooled,
          output>>

handlerVars == <<pc, request, holder, poisoned, seq_len, response, log, calls>>
errVars == <<err, err_response>>
poolVars == <<hidden_states, attention_mask, pooled, output>>

----------------------------------------------------------------------------
(* Bounds of the model *)

NumRequests == 2        \* concurrent function_handler invocations
MaxCharWidth == 2       \* UTF-8 bytes per character of the texts drawn
MaxDetail == 2          \* distinct underlying-detail strings of an error

(* Program constants *)

MAX_TEXT_LENGTH == 100000
MAX_SEQUENCE_LENGTH == 8192
VALID_DIMENSIONS == {768, 512, 256, 128}
default_size == 768
PROMPT_PREFIX_LEN == 20     \* "title: none | text: "

Requests == 1..NumRequests
NoHolder == 0
NoRequest == [json_ok |-> FALSE, size |-> 0, text |-> [chars |-> 0, bytes |-> 0]]
NoResponse == [status |-> 0]
Details == 1..MaxDetail

----------------------------------------------------------------------------
(* error.rs *)

ClientKinds == {"InvalidDimension", "SequenceTooLong", "EmptyInput", "TextTooLong"}

ErrorKinds == ClientKinds \cup
    {"TokenizerLoad", "Tokenization", "OnnxRuntime", "ArrayShape",
     "MutexPoisoned", "Internal"}

InvalidDimension(size) ==
    [kind |-> "InvalidDimension", size |-> size, valid |-> VALID_DIMENSIONS]
SequenceTooLong(got, max) == [kind |-> "SequenceTooLong", got |-> got, max |-> max]
EmptyInput == [kind |-> "EmptyInput"]
TextTooLong(got, max) == [kind |-> "TextTooLong", got |-> got, max |-> max]
TokenizerLoad(d) == [kind |-> "TokenizerLoad", detail |-> d]
Tokenization(d) == [kind |-> "Tokenization", detail |-> d]
OnnxRuntime(d) == [kind |-> "OnnxRuntime", detail |-> d]
ArrayShape(d) == [kind |-> "ArrayShape", detail |-> d]
MutexPoisoned == [kind |-> "MutexPoisoned"]
Internal(d) == [kind |-> "Internal", detail |-> d]

\* Variant: Tokenization classified with the client errors.
is_client_error_with_tokenization(e) == e.kind \in ClientKinds \cup {"Tokenization"}

is_client_error(e) == e.kind \in ClientKinds

status_code(e) == IF is_client_error(e) THEN 400 ELSE 500

\* Display of the error (#[error("...")]): the variant's text with its fields.
to_string(e) == [form |-> "display", of |-> e]

GenericMessage == [form |-> "generic"]

\* The first five arms format the error's own fields; the wildcard arm
\* depends on the build.
user_message(e, debug) ==
    IF e.kind \in {"InvalidDimension", "SequenceTooLong", "EmptyInput",
                   "TextTooLong", "Tokenization"}
    THEN [form |-> "detailed", of |-> e]
    ELSE IF debug THEN to_string(e) ELSE GenericMessage

----------------------------------------------------------------------------
(* http_handler.rs: responses *)

error_response(status, message) == [status |-> status, error |-> message]

error_from_embed_error(e, debug) ==
    error_response(status_code(e), user_message(e, debug))

InvalidJson == [form |-> "invalid_json"]
InvalidSize(size) == [form |-> "invalid_size", size |-> size, valid |-> VALID_DIMENSIONS]

EmbedResponse(embedding_len) == [status |-> 200, size |-> embedding_len]

----------------------------------------------------------------------------
(* Inputs of the handler *)

HiddenDim == 768    \* hidden_dim of the loaded model (output_shape[2])

\* Character counts: empty, at the limit and one past it; a text of c
\* characters of w bytes each has c * w bytes (String::len counts bytes).
TextChars == {0, MAX_TEXT_LENGTH, MAX_TEXT_LENGTH + 1}

Texts == {[chars |-> c, bytes |-> c * w] : c \in TextChars, w \in 1..MaxCharWidth}

SizeInputs == {768, 128, 500}

\* A body is either not an EmbedRequest, or a JSON object whose size field is
\* present or absent.
Bodies == {[json_ok |-> FALSE]} \cup
    {[json_ok |-> TRUE, has_size |-> h, size |-> s, text |-> t] :
        h \in BOOLEAN, s \in SizeInputs, t \in Texts}

\* serde_json::from_slice into EmbedRequest, #[serde(default = "default_size")]
from_slice(body) ==
    IF body.json_ok
    THEN [json_ok |-> TRUE,
          size |-> IF body.has_size THEN body.size ELSE default_size,
          text |-> body.text]
    ELSE NoRequest

\* Token counts the tokenizer may return for a text: every token of the
\* formatted string covers at least one byte, plus the two boundary tokens.
TokenCounts(text) ==
    {n \in {MAX_SEQUENCE_LENGTH, MAX_SEQUENCE_LENGTH + 1, 9000} :
        n <= text.bytes + PROMPT_PREFIX_LEN + 2}

Min(a, b) == IF a <= b THEN a ELSE b

\* Variant: the handler leaves the dimension check to embed.
size_unchecked(size) == TRUE

\* !VALID_DIMENSIONS.contains(&request.size), negated
size_accepted(size) == size \in VALID_DIMENSIONS

\* request.text.len(): String::len is the length in bytes
text_len(text) == text.bytes

\* Variant: the limit itself is rejected.
sequence_too_long_inclusive(n) == n >= MAX_SEQUENCE_LENGTH

\* seq_len > MAX_SEQUENCE_LENGTH
sequence_too_long(n) == n > MAX_SEQUENCE_LENGTH

Warn(event) == [level |-> "warn", event |-> event]
Info(event) == [level |-> "info", event |-> event]
Error(event, e) == [level |-> "error", event |-> event, detail |-> to_string(e)]

----------------------------------------------------------------------------
(* http_handler.rs: function_handler *)

\* Parsing and the three validations; they touch no shared state.
Receive(r) ==
    /\ pc[r] = "idle"
    /\ \E body \in Bodies :
        LET req == from_slice(body) IN
        /\ request' = [request EXCEPT ![r] = req]
        /\ IF ~body.json_ok
           THEN /\ response' = [response EXCEPT ![r] = error_response(400, InvalidJson)]
                /\ pc' = [pc EXCEPT ![r] = "done"]
                /\ log' = log
           ELSE IF ~size_accepted(req.size)
           THEN /\ response' = [response EXCEPT ![r] =
                                    error_response(400, InvalidSize(req.size))]
                /\ pc' = [pc EXCEPT ![r] = "done"]
                /\ log' = log
           ELSE IF text_len(req.text) = 0
           THEN /\ response' = [response EXCEPT ![r] =
                                    error_from_embed_error(EmptyInput, debug_assertions)]
                /\ pc' = [pc EXCEPT ![r] = "done"]
                /\ log' = [log EXCEPT ![r] = @ \cup {Warn("Empty text input")}]
           ELSE IF text_len(req.text) > MAX_TEXT_LENGTH
           THEN /\ response' = [response EXCEPT ![r] =
                                    error_from_embed_error(
                                        TextTooLong(text_len(req.text), MAX_TEXT_LENGTH),
                                        debug_assertions)]
                /\ pc' = [pc EXCEPT ![r] = "done"]
                /\ log' = [log EXCEPT ![r] = @ \cup {Warn("Text too long")}]
           ELSE /\ response' = response
                /\ pc' = [pc EXCEPT ![r] = "lock"]
                /\ log' = log
    /\ UNCHANGED <<debug_assertions, holder, poisoned, seq_len, calls, errVars, poolVars>>

\* Variant: the guard is handed out without waiting for the current owner.
LockNoWait(r) ==
    /\ pc[r] = "lock"
    /\ holder' = r
    /\ log' = [log EXCEPT ![r] =
                  IF poisoned THEN @ \cup {Warn("Mutex was poisoned, recovering...")}
                  ELSE @]
    /\ calls' = [calls EXCEPT ![r].lock = @ + 1]
    /\ pc' = [pc EXCEPT ![r] = "embed"]
    /\ UNCHANGED <<debug_assertions, request, poisoned, seq_len, response, errVars, poolVars>>

\* Variant: a PoisonError is mapped to EmbedError::MutexPoisoned and returned.
LockPropagatePoison(r) ==
    /\ pc[r] = "lock"
    /\ holder = NoHolder
    /\ IF poisoned
       THEN /\ log' = [log EXCEPT ![r] =
                         @ \cup {Error("Embedding generation failed", MutexPoisoned)}]
            /\ response' = [response EXCEPT ![r] =
                               error_from_embed_error(MutexPoisoned, debug_assertions)]
            /\ pc' = [pc EXCEPT ![r] = "done"]
            /\ UNCHANGED <<holder, calls>>
       ELSE /\ holder' = r
            /\ calls' = [calls EXCEPT ![r].lock = @ + 1]
            /\ pc' = [pc EXCEPT ![r] = "embed"]
            /\ UNCHANGED <<log, response>>
    /\ UNCHANGED <<debug_assertions, request, poisoned, seq_len, errVars, poolVars>>

\* embedder.lock(): blocks while another guard exists; a poisoned mutex
\* returns the guard inside the PoisonError and the handler takes it.
Lock(r) ==
    /\ pc[r] = "lock"
    /\ holder = NoHolder
    /\ holder' = r
    /\ log' = [log EXCEPT ![r] =
                  IF poisoned THEN @ \cup {Warn("Mutex was poisoned, recovering...")}
                  ELSE @]
    /\ calls' = [calls EXCEPT ![r].lock = @ + 1]
    /\ pc' = [pc EXCEPT ![r] = "embed"]
    /\ UNCHANGED <<debug_assertions, request, poisoned, seq_len, response, errVars, poolVars>>

\* The Err(e) arm of the match on embedder.embed: log, respond, drop the guard.
EmbedFailed(r, e) ==
    /\ log' = [log EXCEPT ![r] = @ \cup {Error("Embedding generation failed", e)}]
    /\ response' = [response EXCEPT ![r] = error_from_embed_error(e, debug_assertions)]
    /\ holder' = NoHolder
    /\ pc' = [pc EXCEPT ![r] = "done"]

\* Embedder::embed up to the sequence-length check.
Tokenize(r) ==
    /\ pc[r] = "embed"
    /\ holder = r
    /\ IF request[r].size \notin VALID_DIMENSIONS
       THEN /\ EmbedFailed(r, InvalidDimension(request[r].size))
            /\ UNCHANGED <<seq_len, calls>>
       ELSE /\ calls' = [calls EXCEPT ![r].tokenize = @ + 1]
            /\ \/ \E d \in Details :
                    /\ EmbedFailed(r, Tokenization(d))
                    /\ seq_len' = seq_len
               \/ \E n \in TokenCounts(request[r].text) :
                    /\ seq_len' = [seq_len EXCEPT ![r] = n]
                    /\ IF sequence_too_long(n)
                       THEN EmbedFailed(r, SequenceTooLong(n, MAX_SEQUENCE_LENGTH))
                       ELSE /\ pc' = [pc EXCEPT ![r] = "run"]
                            /\ UNCHANGED <<log, response, holder>>
    /\ UNCHANGED <<debug_assertions, request, poisoned, errVars, poolVars>>

\* self.session.run(...) is entered.
RunStart(r) ==
    /\ pc[r] = "run"
    /\ holder = r
    /\ calls' = [calls EXCEPT ![r].run = @ + 1]
    /\ pc' = [pc EXCEPT ![r] = "running"]
    /\ UNCHANGED <<debug_assertions, request, holder, poisoned, seq_len, response,
                   log, errVars, poolVars>>

\* session.run returns an error (also Value::from_array, try_extract_tensor).
RunFailed(r) ==
    /\ pc[r] = "running"
    /\ holder = r
    /\ \E d \in Details : EmbedFailed(r, OnnxRuntime(d))
    /\ UNCHANGED <<debug_assertions, request, poisoned, seq_len, calls, errVars, poolVars>>

\* session.run returns [1, seq_len, hidden_dim]; pooling, truncation and
\* normalisation follow, the guard is dropped and the 200 response is built.
RunOk(r) ==
    /\ pc[r] = "running"
    /\ holder = r
    /\ log' = [log EXCEPT ![r] = @ \cup {Info("Embedding generated successfully")}]
    /\ response' = [response EXCEPT ![r] =
                       EmbedResponse(Min(request[r].size, HiddenDim))]
    /\ holder' = NoHolder
    /\ pc' = [pc EXCEPT ![r] = "done"]
    /\ UNCHANGED <<debug_assertions, request, poisoned, seq_len, calls, errVars, poolVars>>

\* The output tensor does not have the expected layout: output_shape[2],
\* index_axis(Axis(0), 0) or the broadcast multiply panics. Unwinding drops the
\* guard, which poisons the mutex and releases it.
RunPanic(r) ==
    /\ pc[r] = "running"
    /\ holder = r
    /\ holder' = NoHolder
    /\ poisoned' = TRUE
    /\ pc' = [pc EXCEPT ![r] = "panicked"]
    /\ UNCHANGED <<debug_assertions, request, seq_len, response, log, calls,
                   errVars, poolVars>>

----------------------------------------------------------------------------
(* main.rs: one Embedder behind Arc<Mutex<..>>, handlers started on demand *)

NoError == [kind |-> "None"]
NoVec == [num |-> <<>>, den |-> 0, rad |-> 0]

HandlerIdle ==
    /\ pc = [r \in Requests |-> "idle"]
    /\ request = [r \in Requests |-> NoRequest]
    /\ holder = NoHolder
    /\ poisoned = FALSE
    /\ seq_len = [r \in Requests |-> 0]
    /\ response = [r \in Requests |-> NoResponse]
    /\ log = [r \in Requests |-> {}]
    /\ calls = [r \in Requests |-> [lock |-> 0, tokenize |-> 0, run |-> 0]]

ErrIdle ==
    /\ err = NoError
    /\ err_response = NoResponse

PoolIdle ==
    /\ hidden_states = <<>>
    /\ attention_mask = <<>>
    /\ pooled = NoVec
    /\ output = <<>>

Init ==
    /\ debug_assertions \in BOOLEAN
    /\ HandlerIdle
    /\ ErrIdle
    /\ PoolIdle

Next ==
    \E r \in Requests :
        \/ Receive(r)
        \/ Lock(r)
        \/ Tokenize(r)
        \/ RunStart(r)
        \/ RunFailed(r)
        \/ RunOk(r)
        \/ RunPanic(r)

Spec == Init /\ [][Next]_vars

----------------------------------------------------------------------------
(* ErrSpec: every EmbedError value through error_from_embed_error *)

BadSizes == {0, 1, 127, 129, 255, 257, 500, 511, 513, 767, 769, 1024}

EmbedErrors ==
    {InvalidDimension(n) : n \in BadSizes}
    \cup {SequenceTooLong(n, MAX_SEQUENCE_LENGTH) : n \in {MAX_SEQUENCE_LENGTH + 1, 9000}}
    \cup {EmptyInput}
    \cup {TextTooLong(t.bytes, MAX_TEXT_LENGTH) : t \in {u \in Texts : u.bytes > MAX_TEXT_LENGTH}}
    \cup {TokenizerLoad(d) : d \in Details}
    \cup {Tokenization(d) : d \in Details}
    \cup {OnnxRuntime(d) : d \in Details}
    \cup {ArrayShape(d) : d \in Details}
    \cup {MutexPoisoned}
    \cup {Internal(d) : d \in Details}

ErrInit ==
    /\ debug_assertions \in BOOLEAN
    /\ err \in EmbedErrors
    /\ err_response = NoResponse
    /\ HandlerIdle
    /\ PoolIdle

Convert ==
    /\ err_response = NoResponse
    /\ err_response' = error_from_embed_error(err, debug_assertions)
    /\ UNCHANGED <<debug_assertions, err, handlerVars, poolVars>>

ErrNext == Convert

ErrSpec == ErrInit /\ [][ErrNext]_vars

----------------------------------------------------------------------------
(* PoolSpec: embedder.rs steps 5-7 in exact arithmetic.                     *)
(* A vector is [num, den, rad]: component j has the value                   *)
(* num[j] / (den * sqrt(rad)), so that means and norms are represented      *)
(* without rounding.                                                        *)

MaxTokens == 2      \* longest token sequence drawn
MaxHidden == 1      \* largest multiple of a base pattern in a hidden state

\* A hidden-state row is constant on each of the four ranges the valid
\* dimensions cut out of 1..HiddenDim.
BlockOf(j) == IF j <= 128 THEN 1 ELSE IF j <= 256 THEN 2 ELSE IF j <= 512 THEN 3 ELSE 4

BasePatterns == {<<0, 0, 0, 1>>, <<1, -2, 0, 2>>}

Rows ==
    {[j \in 1..HiddenDim |-> 0]} \cup
    {[j \in 1..HiddenDim |-> a * p[BlockOf(j)]] : a \in 1..MaxHidden, p \in BasePatterns}

RECURSIVE SumRange(_, _, _)
SumRange(f, lo, hi) ==
    IF lo > hi THEN 0
    ELSE IF lo = hi THEN f[lo]
    ELSE LET mid == (lo + hi) \div 2 IN SumRange(f, lo, mid) + SumRange(f, mid + 1, hi)

SumSeq(f) == SumRange(f, 1, Len(f))

SumSq(f) == SumSeq([j \in 1..Len(f) |-> f[j] * f[j]])

\* Variant: with an empty mask the hidden states are summed unmasked.
mean_pooling_unmasked(states, mask) ==
    LET count == SumSeq(mask)
        sum == [j \in 1..HiddenDim |->
                   SumSeq([i \in 1..Len(states) |-> states[i][j] * mask[i]])]
        raw == [j \in 1..HiddenDim |->
                   SumSeq([i \in 1..Len(states) |-> states[i][j]])]
    IN  IF count > 0
        THEN [num |-> sum, den |-> count, rad |-> 1]
        ELSE [num |-> raw, den |-> 1, rad |-> 1]

\* masked_states.sum_axis(Axis(0)), then the guarded division by count.
mean_pooling(states, mask) ==
    LET count == SumSeq(mask)
        sum == [j \in 1..HiddenDim |->
                   SumSeq([i \in 1..Len(states) |-> states[i][j] * mask[i]])]
    IN  IF count > 0
        THEN [num |-> sum, den |-> count, rad |-> 1]
        ELSE [num |-> sum, den |-> 1, rad |-> 1]

\* Variant: the last `size` elements are kept.
take_from_end(v, size) ==
    LET k == Min(size, Len(v.num)) IN
    [v EXCEPT !.num = [j \in 1..k |-> v.num[Len(v.num) - k + j]]]

\* embedding.into_iter().take(size)
take(v, size) ==
    [v EXCEPT !.num = [j \in 1..Min(size, Len(v.num)) |-> v.num[j]]]

\* norm = sqrt(sum of x*x) = sqrt(SumSq(num)) / (den * sqrt(rad)); when it is
\* positive, x / norm = num[j] / sqrt(SumSq(num)).
normalize(v) ==
    LET norm2 == SumSq(v.num) IN
    IF norm2 > 0
    THEN [num |-> v.num, den |-> 1, rad |-> norm2]
    ELSE v

Masks(n) == [1..n -> {0, 1}]

PoolInit ==
    /\ debug_assertions = FALSE
    /\ \E n \in 1..MaxTokens :
        /\ hidden_states \in [1..n -> Rows]
        /\ attention_mask \in Masks(n)
    /\ pooled = NoVec
    /\ output = <<>>
    /\ HandlerIdle
    /\ ErrIdle

\* Step 5
Pool ==
    /\ pooled = NoVec
    /\ pooled' = mean_pooling(hidden_states, attention_mask)
    /\ UNCHANGED <<debug_assertions, hidden_states, attention_mask, output,
                   handlerVars, errVars>>

\* Steps 6 and 7, for one requested size
Finish(size) ==
    /\ pooled # NoVec
    /\ size \notin DOMAIN output
    /\ output' = [s \in DOMAIN output \cup {size} |->
                     IF s = size THEN normalize(take(pooled, size)) ELSE output[s]]
    /\ UNCHANGED <<debug_assertions, hidden_states, attention_mask, pooled,
                   handlerVars, errVars>>

PoolNext == Pool \/ \E size \in VALID_DIMENSIONS : Finish(size)

PoolSpec == PoolInit /\ [][PoolNext]_vars

----------------------------------------------------------------------------
(* Properties *)

InEmbed(r) == pc[r] \in {"embed", "run", "running"}

\* C1: at most one invocation is inside Embedder::embed at any time, and no
\* invocation is inside session.run while another one is inside embed.
C1_OneInvocationInEmbed ==
    \A r1 \in Requests : \A r2 \in Requests :
        (r1 # r2 /\ InEmbed(r1)) => ~InEmbed(r2)

\* Reached: one invocation is inside session.run while another waits for the lock.
C1_Witness ==
    \E r1 \in Requests : \E r2 \in Requests :
        r1 # r2 /\ pc[r1] = "running" /\ pc[r2] = "lock"

PassedValidation(r) ==
    /\ pc[r] # "idle"
    /\ request[r].json_ok
    /\ request[r].size \in {768, 512, 256, 128}
    /\ request[r].text.bytes > 0
    /\ request[r].text.bytes <= 100000

\* C2: once the mutex is poisoned, a request that passed validation and waits
\* for a free lock can take it, every finished request that passed validation
\* has acquired the lock and called into embed, and no request was failed with
\* the poisoned-resource kind.
C2_PoisonRecovered ==
    poisoned =>
        \A r \in Requests :
            /\ (pc[r] = "lock" /\ holder = NoHolder) => ENABLED Lock(r)
            /\ (PassedValidation(r) /\ pc[r] \in {"done", "panicked"}) =>
                    (calls[r].lock = 1 /\ calls[r].tokenize = 1)
            /\ \A entry \in log[r] :
                    entry.level = "error" => entry.detail.of.kind # "MutexPoisoned"

\* Reached: after a panic poisoned the mutex, a later request recovered the
\* guard and was answered with an embedding.
C2_Witness ==
    /\ poisoned
    /\ \E r \in Requests :
        /\ Warn("Mutex was poisoned, recovering...") \in log[r]
        /\ pc[r] = "done"
        /\ response[r].status = 200

Sign(x) == IF x > 0 THEN 1 ELSE IF x < 0 THEN -1 ELSE 0

\* u is the L2-normalization of v: u = v when v is all zero, and otherwise
\* u[j] * ||v|| = v[j] for every j (both sides compared by sign and square).
IsL2NormalizationOf(u, v) ==
    LET norm2 == SumSq(v.num) IN
    /\ Len(u.num) = Len(v.num)
    /\ IF norm2 = 0
       THEN \A j \in 1..Len(u.num) : u.num[j] = 0
       ELSE \A j \in 1..Len(u.num) :
                /\ Sign(u.num[j]) = Sign(v.num[j])
                /\ u.num[j] * u.num[j] * norm2
                       = v.num[j] * v.num[j] * u.den * u.den * u.rad

Prefix(v, k) == [num |-> SubSeq(v.num, 1, k), den |-> v.den, rad |-> v.rad]

\* C3: for the same hidden states and mask, the output for every valid size is
\* the L2-normalization of the first `size` elements of the output for 768.
C3_MatryoshkaConsistency ==
    \A size \in DOMAIN output :
        768 \in DOMAIN output =>
            /\ Len(output[size].num) = size
            /\ IsL2NormalizationOf(output[size], Prefix(output[768], size))

\* Reached: the outputs for 128 and for 768 are both computed, the 128 prefix
\* is not all zero and its norm differs from that of the full vector.
C3_Witness ==
    /\ 768 \in DOMAIN output
    /\ 128 \in DOMAIN output
    /\ SumSq(output[128].num) > 0
    /\ SumSq(output[128].num) # SumSq(output[768].num)

\* C4: the status is 400 exactly for InvalidDimension, SequenceTooLong,
\* EmptyInput and TextTooLong, and 500 for every other error kind.
C4_StatusByKind ==
    err_response # NoResponse =>
        /\ err_response.status = 400 <=>
               err.kind \in {"InvalidDimension", "SequenceTooLong", "EmptyInput",
                             "TextTooLong"}
        /\ err_response.status = 500 <=>
               err.kind \in {"TokenizerLoad", "Tokenization", "OnnxRuntime",
                             "ArrayShape", "MutexPoisoned", "Internal"}

\* Reached: a Tokenization error was converted into a 500 response.
C4_Witness ==
    /\ err.kind = "Tokenization"
    /\ err_response # NoResponse
    /\ err_response.status = 500

\* C5: a client-class error response carries the error's detail; a
\* server-class (500) response carries only the generic message in a
\* production build and the detail in a development build.
C5_ServerDetailHidden ==
    \A r \in Requests :
        pc[r] = "done" =>
            /\ (response[r].status = 400 /\ response[r].error.form = "detailed")
                    => response[r].error.of.kind \in
                           {"InvalidDimension", "SequenceTooLong", "EmptyInput",
                            "TextTooLong"}
            /\ response[r].status = 500 =>
                    IF debug_assertions
                    THEN response[r].error # GenericMessage
                    ELSE response[r].error = GenericMessage

RejectedSequenceTooLong(r) ==
    /\ pc[r] = "done"
    /\ response[r] =
           [status |-> 400,
            error |-> [form |-> "detailed",
                       of |-> [kind |-> "SequenceTooLong", got |-> seq_len[r],
                               max |-> 8192]]]

\* C6: once the tokenizer has returned, the request fails with
\* SequenceTooLong(got = token count, max = 8192) exactly when the token count
\* exceeds 8192, and then session.run was never entered.
C6_SequenceLimit ==
    \A r \in Requests :
        seq_len[r] > 0 =>
            /\ seq_len[r] > 8192 <=> RejectedSequenceTooLong(r)
            /\ seq_len[r] > 8192 => calls[r].run = 0

\* Reached: one request of 8193 tokens was rejected and one of exactly 8192
\* tokens went through inference and was answered.
C6_Witness ==
    \E r1 \in Requests : \E r2 \in Requests :
        /\ seq_len[r1] = 8193 /\ RejectedSequenceTooLong(r1)
        /\ seq_len[r2] = 8192 /\ calls[r2].run = 1 /\ pc[r2] = "done"
        /\ response[r2].status = 200

IsTextTooLong(resp) ==
    /\ resp.status = 400
    /\ resp.error.form = "detailed"
    /\ resp.error.of.kind = "TextTooLong"

\* C7: a request with a valid size and a non-empty text is rejected with
\* TextTooLong exactly when the text has more than 100,000 characters, and the
\* error reports got = the character count and max = 100000.
C7_TextLimitInCharacters ==
    \A r \in Requests :
        (/\ pc[r] # "idle"
         /\ request[r].json_ok
         /\ request[r].size \in {768, 512, 256, 128}
         /\ request[r].text.chars > 0) =>
            /\ IsTextTooLong(response[r]) <=> request[r].text.chars > 100000
            /\ IsTextTooLong(response[r]) =>
                   /\ response[r].error.of.got = request[r].text.chars
                   /\ response[r].error.of.max = 100000

ZeroVector == [num |-> [j \in 1..HiddenDim |-> 0], den |-> 1, rad |-> 1]

UnweightedSum ==
    [num |-> [j \in 1..HiddenDim |->
                 SumSeq([i \in 1..Len(hidden_states) |-> hidden_states[i][j]])],
     den |-> 1, rad |-> 1]

\* C8 (as stated): when the mask sums to 0, pooling returns the unweighted sum
\* of the hidden states over the sequence axis.
C8_FallsBackToUnweightedSum ==
    (pooled # NoVec /\ SumSeq(attention_mask) = 0) => pooled = UnweightedSum

\* C8 (amended): when the mask sums to 0, pooling skips the division and
\* returns the mask-weighted sum, which is the zero vector of length hidden_dim.
C8_ZeroMaskGivesMaskedSum ==
    (pooled # NoVec /\ SumSeq(attention_mask) = 0) => pooled = ZeroVector

\* Reached: pooling ran on an all-zero mask over hidden states whose
\* unweighted sum is not zero.
C8_Witness ==
    /\ pooled # NoVec
    /\ SumSeq(attention_mask) = 0
    /\ UnweightedSum # ZeroVector

FailsValidation(r) ==
    /\ pc[r] # "idle"
    /\ \/ ~request[r].json_ok
       \/ request[r].size \notin {768, 512, 256, 128}
       \/ request[r].text.bytes = 0
       \/ request[r].text.chars > 100000

\* C9: a request with a size outside {768, 512, 256, 128}, an empty text or an
\* over-long text is answered 400 without the lock being acquired, the
\* tokenizer called or the session run; session.run is entered only after the
\* tokenizer returned a sequence within the limit.
C9_ValidationBeforeWork ==
    \A r \in Requests :
        /\ FailsValidation(r) =>
               /\ pc[r] = "done"
               /\ response[r].status = 400
               /\ calls[r] = [lock |-> 0, tokenize |-> 0, run |-> 0]
        /\ IsTextTooLong(response[r]) =>
               calls[r] = [lock |-> 0, tokenize |-> 0, run |-> 0]
        /\ calls[r].tokenize > 0 => calls[r].lock > 0
        /\ calls[r].run > 0 =>
               (calls[r].tokenize > 0 /\ seq_len[r] > 0 /\ seq_len[r] <= 8192)

\* Reached: one request was rejected for its size while another one, past
\* validation, was rejected for its token count after tokenization.
C9_Witness ==
    \E r1 \in Requests : \E r2 \in Requests :
        /\ pc[r1] = "done" /\ request[r1].json_ok /\ request[r1].size = 500
        /\ RejectedSequenceTooLong(r2) /\ calls[r2].tokenize = 1

EndsInClientError(r) ==
    /\ pc[r] = "done"
    /\ response[r].status = 400
    /\ response[r].error.form \in {"detailed", "invalid_size"}

\* C10: a request that ends in a client-class error emitted no error-level
\* log entry and ran the pipeline at most once; a request that ends in a
\* server-class error logged the error with its full detail.
C10_ClientErrorsNotLoggedAsFailures ==
    \A r \in Requests :
        /\ EndsInClientError(r) =>
               /\ \A entry \in log[r] : entry.level # "error"
               /\ calls[r].tokenize <= 1
               /\ calls[r].run <= 1
        /\ (pc[r] = "done" /\ response[r].status = 500) =>
               \E entry \in log[r] :
                   entry.level = "error" /\ entry.detail.form = "display"

====
